---- MODULE Spec2Model ----
(***************************************************************************)
(* midi2psx: conversion of a Standard MIDI File into the FDSS sequence     *)
(* format (src/src/main.rs).  The converter is one sequential pipeline:    *)
(*   Merge          squash all tracks into one map tick -> events          *)
(*   BeginTick      per tick: quantize the gap into WaitTicks commands     *)
(*   TranslateEvent per event of the tick: emit the FDSS command           *)
(*   Encode         header + serialized commands                          *)
(* Integers of the source keep their width where the width is observable   *)
(* (u32 tick, u16 gap, u8 shift, i16 pitch, f32/f64 rounding).  A u32 is    *)
(* kept as its two 16-bit halves <<high, low>>, which puts the whole u32   *)
(* range within reach of 32-bit signed integer arithmetic.                 *)
(***************************************************************************)
EXTENDS Integers, Sequences, FiniteSets, TLC

VARIABLES
    tracks,                  \* smf.tracks: the parsed tracks, each a list of [delta, kind]
    timing,                  \* smf.header.timing
    overflow_checks,         \* build profile: TRUE = integer overflow panics (debug), FALSE = wraps (release)
    pc,                      \* position of main(): "merge", "tick", "events", "done", "panicked"
    event_map,               \* BTreeMap<u32, Vec<TrackEventKind>>
    time,                    \* key of the tick group being translated (<<-1, 0>> before the first)
    ev_idx,                  \* position inside the current tick group's event list
    prev_time,
    pitch_bend_range_coarse,
    pitch_bend_range_fine,
    cc100,
    cc101,
    fdss_commands,
    output,                  \* the byte buffer handed to fs::write (<<>> until Encode ran)
    gap,                     \* SpecCoin only: the gap being quantized
    count,                   \* SpecCoin only: how many WaitTicks the loop pushes, for the last 1024 gaps
    best                     \* SpecCoin only: the fewest LUT entries summing to each of the last 1024 gaps

vars == <<tracks, timing, overflow_checks, pc, event_map, time, ev_idx, prev_time,
          pitch_bend_range_coarse, pitch_bend_range_fine, cc100, cc101,
          fdss_commands, output, gap, count, best>>

(***************************************************************************)
(* Bounds of the model                                                     *)
(***************************************************************************)
MaxTracks == 2
MaxEvents == 3
MaxRpnEvents == 4
MaxCodecTail == 1
MaxGapEvents == 2
MaxWrapEvents == 17

(***************************************************************************)
(* Small arithmetic helpers                                                *)
(***************************************************************************)
RECURSIVE BitOr(_, _)
BitOr(a, b) ==
    IF a = 0 THEN b
    ELSE IF b = 0 THEN a
    ELSE 2 * BitOr(a \div 2, b \div 2) + (IF a % 2 = 1 \/ b % 2 = 1 THEN 1 ELSE 0)

RECURSIVE BitAnd(_, _)
BitAnd(a, b) ==
    IF a = 0 \/ b = 0 THEN 0
    ELSE 2 * BitAnd(a \div 2, b \div 2) + (IF a % 2 = 1 /\ b % 2 = 1 THEN 1 ELSE 0)

Abs(x) == IF x < 0 THEN -x ELSE x

\* the u32 of value n, for 0 <= n < 2^31
U32(n) == <<n \div 65536, n % 65536>>

\* u32 + delta for a delta of at most 28 bits: the wrapped sum, and whether the
\* true sum passed u32::MAX
AddU32(a, delta) ==
    LET low  == a[2] + (delta % 65536)
        high == a[1] + (delta \div 65536) + (low \div 65536)
    IN  [value |-> <<high % 65536, low % 65536>>, overflow |-> high >= 65536]

\* a - b on u32, for a >= b
SubU32(a, b) ==
    LET low    == a[2] - b[2]
        borrow == IF low < 0 THEN 1 ELSE 0
    IN  <<a[1] - b[1] - borrow, (low + 65536) % 65536>>

\* a < b on u32 (and on the <<-1, 0>> that stands before every key)
LessU32(a, b) == a[1] < b[1] \/ (a[1] = b[1] /\ a[2] < b[2])

\* the concatenation of a list of lists (split in halves to keep the evaluation shallow)
RECURSIVE Concat(_)
Concat(ss) ==
    IF Len(ss) = 0 THEN <<>>
    ELSE IF Len(ss) = 1 THEN ss[1]
    ELSE LET h == Len(ss) \div 2
         IN  Concat(SubSeq(ss, 1, h)) \o Concat(SubSeq(ss, h + 1, Len(ss)))

(***************************************************************************)
(* const WAIT_TICK_LUT and the greedy gap quantization                     *)
(***************************************************************************)
WAIT_TICK_LUT ==
    << 1,   2,   3,   4,   6,   8,   12,  16,
       20,  24,  28,  32,  40,  48,  56,  64,
       80,  96,  112, 128, 160, 192, 224, 256,
       320, 384, 448, 512, 640, 768, 896, 1024 >>

WaitTicks(index) == [cmd |-> "WaitTicks", index_into_lut |-> index]

\* Variant of the scan: `for index in 0..WAIT_TICK_LUT.len()`, the first hit of
\* an ascending scan.  C6 depends on the direction of the scan.
ScanLutAscending(delta_time_left) ==
    CHOOSE index \in 0..(Len(WAIT_TICK_LUT) - 1) :
        /\ WAIT_TICK_LUT[index + 1] <= delta_time_left
        /\ \A earlier \in 0..(index - 1) :
               ~(WAIT_TICK_LUT[earlier + 1] <= delta_time_left)

\* for index in (0..WAIT_TICK_LUT.len()).rev() { if WAIT_TICK_LUT[index] <= left { .. break } }
\* The first hit of the descending scan; index is the 0-based index of the source.
ScanLut(delta_time_left) ==
    CHOOSE index \in 0..(Len(WAIT_TICK_LUT) - 1) :
        /\ WAIT_TICK_LUT[index + 1] <= delta_time_left
        /\ \A later \in (index + 1)..(Len(WAIT_TICK_LUT) - 1) :
               ~(WAIT_TICK_LUT[later + 1] <= delta_time_left)

\* one pass through the body of `while delta_time_left > 0`
Iteration(st) ==
    IF st.delta_time_left > 0
    THEN LET index == ScanLut(st.delta_time_left)
         IN  [delta_time_left |-> st.delta_time_left - WAIT_TICK_LUT[index + 1],
              pushed |-> Append(st.pushed, WaitTicks(index))]
    ELSE st

\* up to n passes.  Every pass takes at least WAIT_TICK_LUT[0] = 1 off a u16, so
\* 65536 passes always end the loop; the halving keeps the evaluation shallow.
RECURSIVE WhileLoop(_, _)
WhileLoop(st, n) ==
    IF st.delta_time_left = 0 THEN st
    ELSE IF n = 1 THEN Iteration(st)
    ELSE WhileLoop(WhileLoop(st, n \div 2), n - n \div 2)

\* lines 74-82: the WaitTicks commands pushed for delta_time_left
Quantize(delta_time_left) ==
    WhileLoop([delta_time_left |-> delta_time_left, pushed |-> <<>>], 65536).pushed

\* let mut delta_time_left = delta_time as u16;  the low half of the u32
AsU16(delta_time) == delta_time[2]

\* lines 70-83: the commands pushed for the gap between prev_time and the key t
GapCommands(prev, t) ==
    IF prev # t THEN Quantize(AsU16(SubU32(t, prev))) ELSE <<>>

(***************************************************************************)
(* IEEE-754 arithmetic of the two numeric conversions.  The source does    *)
(* the pitch computation in f32 and the tempo computation in f64; both     *)
(* round every intermediate result to nearest, ties to even.               *)
(***************************************************************************)

\* number of binary digits of n >= 0
BitLen(n) == CHOOSE len \in 0..31 : n < 2^len /\ (len = 0 \/ n >= 2^(len - 1))

\* n >= 0 rounded to `bits` significant bits, ties to even (one f32 operation
\* whose exact result is the integer n times a power of two)
RoundSig(n, bits) ==
    LET s    == IF BitLen(n) > bits THEN BitLen(n) - bits ELSE 0
        unit == 2^s
        q    == n \div unit
        r    == n % unit
    IN  IF s = 0 THEN n
        ELSE IF 2 * r > unit \/ (2 * r = unit /\ q % 2 = 1) THEN (q + 1) * unit
        ELSE q * unit

\* `x as i16` for a float x = sign * (mag8192 / 8192): truncate toward zero, saturate
AsI16(sign, mag8192) ==
    LET t == sign * (mag8192 \div 8192)
    IN  IF t > 32767 THEN 32767 ELSE IF t < -32768 THEN -32768 ELSE t

\* lines 102-105.  bend is the raw 14-bit value of the event; midly's
\* PitchBend::as_f32 is (raw - 0x2000) as f32 * (1.0 / 0x2000 as f32).
PitchValue(coarse, fine, bend) ==
    LET pitch_bend_range_cents == (coarse * 100) + (fine * 1)     \* exact in f32
        bend_int               == bend - 8192
        \* (cents * 10.0) is exact; the product is num / 8192 before rounding
        num                    == (pitch_bend_range_cents * 10) * bend_int
        actual8192             == RoundSig(Abs(num), 24)
    IN  AsI16(IF num < 0 THEN -1 ELSE 1, actual8192)

\* A positive f64 is held as its 53-bit mantissa in two limbs and its exponent:
\* value = (hi * 2^26 + lo) * 2^(e - 52), 2^26 <= hi < 2^27, 0 <= lo < 2^26.
\* Round to nearest, ties to even: rnd is the first bit dropped, sticky tells
\* whether anything non-zero follows it.
RoundF64(hi, lo, rnd, sticky, e) ==
    LET up  == rnd = 1 /\ (sticky \/ lo % 2 = 1)
        lo2 == IF up THEN lo + 1 ELSE lo
        hi2 == hi + lo2 \div 2^26
    IN  IF hi2 = 2^27 THEN [hi |-> 2^26, lo |-> 0, e |-> e + 1]
        ELSE [hi |-> hi2, lo |-> lo2 % 2^26, e |-> e]

\* Long division by d < 2^20 of a number given as base-1024 digits (continued
\* with zeros), ten digits = 100 bit positions: quotient digits and remainder.
RECURSIVE ChunkDiv(_, _, _, _, _)
ChunkDiv(digits, d, j, r, qs) ==
    IF j > 10 THEN [qs |-> qs, r |-> r]
    ELSE LET cur == r * 1024 + (IF j <= Len(digits) THEN digits[j] ELSE 0)
         IN  ChunkDiv(digits, d, j + 1, cur % d, Append(qs, cur \div d))

\* digit j of the quotient (zero past the tenth)
QDigit(qs, j) == IF j <= 10 THEN qs[j] ELSE 0

\* the len <= 27 bits of qs from bit position a on (1 = first), as an integer
QBits(qs, a, len) ==
    LET j    == (a - 1) \div 10 + 1
        off  == (a - 1) % 10
        x    == (QDigit(qs, j) % 2^(10 - off)) * 2^20 + QDigit(qs, j + 1) * 1024 + QDigit(qs, j + 2)
        have == 30 - off
    IN  IF have >= len THEN x \div 2^(have - len)
        ELSE x * 2^(len - have) + QDigit(qs, j + 3) \div 2^(10 - (len - have))

\* whether any bit of qs from position a on is set
QAnyFrom(qs, a) ==
    LET j   == (a - 1) \div 10 + 1
        off == (a - 1) % 10
    IN  a <= 100 /\ (qs[j] % 2^(10 - off) # 0 \/ \E k \in (j + 1)..10 : qs[k] # 0)

\* The quotient rounded to an f64; position 1 of the quotient weighs 2^top.
\* The first significant quotient bit lies within the first 46 positions for
\* every operand pair of TempoValue, so 100 positions hold the 54 bits needed.
RoundQuotient(qs, r, top) ==
    LET j0    == CHOOSE j \in 1..10 : qs[j] # 0 /\ \A k \in 1..(j - 1) : qs[k] = 0
        first == 10 * (j0 - 1) + (10 - BitLen(qs[j0])) + 1
    IN  RoundF64(QBits(qs, first, 27), QBits(qs, first + 27, 26), QBits(qs, first + 53, 1),
                 r # 0 \/ QAnyFrom(qs, first + 54), top + 1 - first)

\* n / d correctly rounded, for the digits of a number whose position 1 weighs 2^top
DivF64(digits, top, d) ==
    LET res == ChunkDiv(digits, d, 1, 0, <<>>)
    IN  RoundQuotient(res.qs, res.r, top)

\* the integer T < 2^24 as 30 bits, the mantissa of x as 60 bits
DigitsOfInt(T) == <<T \div 2^20, (T \div 1024) % 1024, T % 1024>>
DigitsOfF64(x) ==
    <<x.hi \div 2^24, (x.hi \div 2^14) % 1024, (x.hi \div 16) % 1024,
      (x.hi % 16) * 64 + x.lo \div 2^20, (x.lo \div 1024) % 1024, x.lo % 1024>>

\* x * 49152.0 for the f64 x: 49152 = 3 * 2^14, and 3 * mantissa has 54 or 55 bits
Mul49152(x) ==
    LET lo3 == (3 * x.lo) % 2^26
        hi3 == 3 * x.hi + (3 * x.lo) \div 2^26
    IN  IF hi3 < 2^28
        THEN RoundF64(hi3 \div 2, (hi3 % 2) * 2^25 + lo3 \div 2, lo3 % 2, FALSE, x.e + 14 + 1)
        ELSE RoundF64(hi3 \div 4, (hi3 % 4) * 2^24 + lo3 \div 4, (lo3 \div 2) % 2,
                      lo3 % 2 = 1, x.e + 14 + 2)

\* x.round().clamp(0.0, 4095.0) as u16 for a positive f64 x
RoundClampU16(x) ==
    IF x.e >= 12 THEN 4095
    ELSE IF x.e < -1 THEN 0
    ELSE IF x.e = -1 THEN 1                                  \* 0.5 <= x < 1
    ELSE LET r == (x.hi \div 2^(26 - x.e)) + ((x.hi \div 2^(25 - x.e)) % 2)  \* half rounds away from zero
         IN  IF r > 4095 THEN 4095 ELSE r

\* lines 134-139, for tempo = T microseconds per quarter note and P ticks per
\* quarter note.  T / 0 is +inf (clamped to 4095), 0 / 0 is NaN (NaN as u16 = 0).
TempoValue(T, P) ==
    IF P = 0 THEN (IF T = 0 THEN 0 ELSE 4095)
    ELSE IF T = 0 THEN 0
    ELSE LET microseconds_per_tick == DivF64(DigitsOfInt(T), 29, P)
             seconds_per_tick      == DivF64(DigitsOfF64(microseconds_per_tick),
                                             microseconds_per_tick.e + 7, 1000000)
         IN  RoundClampU16(Mul49152(seconds_per_tick))

(***************************************************************************)
(* The parsed input: midly's TrackEvent { delta, kind }                    *)
(***************************************************************************)
Ev(delta, kind) == [delta |-> delta, kind |-> kind]
Midi(channel, message) == [type |-> "Midi", channel |-> channel, message |-> message]
Meta(message) == [type |-> "Meta", message |-> message]
SysEx == [type |-> "SysEx"]

NoteOn(key, vel) == [msg |-> "NoteOn", key |-> key, vel |-> vel]
NoteOff(key, vel) == [msg |-> "NoteOff", key |-> key, vel |-> vel]
ProgramChange(program) == [msg |-> "ProgramChange", program |-> program]
PitchBend(bend) == [msg |-> "PitchBend", bend |-> bend]
Controller(controller, value) == [msg |-> "Controller", controller |-> controller, value |-> value]
ChannelAftertouch(vel) == [msg |-> "ChannelAftertouch", vel |-> vel]
Tempo(tempo) == [msg |-> "Tempo", tempo |-> tempo]
TimeSignature(num, denom) == [msg |-> "TimeSignature", num |-> num, denom |-> denom]
EndOfTrack == [msg |-> "EndOfTrack"]

Metrical(ticks_per_quarter_note) ==
    [kind |-> "Metrical", ticks_per_quarter_note |-> ticks_per_quarter_note]
Timecode == [kind |-> "Timecode"]

(***************************************************************************)
(* enum FlanSeqCommand                                                     *)
(***************************************************************************)
ReleaseNote(channel, key) == [cmd |-> "ReleaseNote", channel |-> channel, key |-> key]
PlayNote(channel, key, velocity) ==
    [cmd |-> "PlayNote", channel |-> channel, key |-> key, velocity |-> velocity]
SetChannelVolume(channel, volume) ==
    [cmd |-> "SetChannelVolume", channel |-> channel, volume |-> volume]
SetChannelPanning(channel, panning) ==
    [cmd |-> "SetChannelPanning", channel |-> channel, panning |-> panning]
SetChannelPitch(channel, pitch) ==
    [cmd |-> "SetChannelPitch", channel |-> channel, pitch |-> pitch]
SetChannelInstrument(channel, index) ==
    [cmd |-> "SetChannelInstrument", channel |-> channel, index |-> index]
SetTempo(tempo) == [cmd |-> "SetTempo", tempo |-> tempo]
SetTimeSignature(numerator, denominator) ==
    [cmd |-> "SetTimeSignature", numerator |-> numerator, denominator |-> denominator]
SetLoopStart == [cmd |-> "SetLoopStart"]
JumpToLoopStart == [cmd |-> "JumpToLoopStart"]

(***************************************************************************)
(* Track merger, lines 53-62                                               *)
(***************************************************************************)
\* Variant of the push: the event goes to the front of the tick's list.
\* C2 depends on the push appending.
PushFront(vec, kind) == <<kind>> \o vec

\* Vec::push
Push(vec, kind) == Append(vec, kind)

\* event_map.entry(time).or_insert(Vec::new()).push(event.kind)
InsertEvent(map, t, kind) ==
    IF t \in DOMAIN map
    THEN [map EXCEPT ![t] = Push(@, kind)]
    ELSE [k \in DOMAIN map \cup {t} |-> IF k = t THEN Push(<<>>, kind) ELSE map[k]]

\* for event in track { time += event.delta.as_int(); ... }
\* The sum is a u32: past u32::MAX it panics in a build with overflow checks
\* and wraps in a build without.  The result is the map and whether it panicked.
RECURSIVE MergeTrack(_, _, _, _)
MergeTrack(map, track, i, t) ==
    IF i > Len(track) THEN [map |-> map, panic |-> FALSE]
    ELSE LET sum == AddU32(t, track[i].delta)
         IN  IF sum.overflow /\ overflow_checks
             THEN [map |-> map, panic |-> TRUE]      \* attempt to add with overflow
             ELSE MergeTrack(InsertEvent(map, sum.value, track[i].kind),
                             track, i + 1, sum.value)

\* for (_, track) in smf.tracks.iter().enumerate() { let mut time = 0; ... }
RECURSIVE MergeTracks(_, _, _)
MergeTracks(map, trks, ti) ==
    IF ti > Len(trks) THEN [map |-> map, panic |-> FALSE]
    ELSE LET merged == MergeTrack(map, trks[ti], 1, U32(0))
         IN  IF merged.panic THEN merged
             ELSE MergeTracks(merged.map, trks, ti + 1)

EmptyMap == [k \in {} |-> <<>>]

(***************************************************************************)
(* Command translator, lines 85-148                                        *)
(***************************************************************************)
\* Variant of the selector reset: cc100 and cc101 live across tick groups.
\* C4 depends on the reset.
KeepSelector(old) == old

\* let mut cc100 = -1; let mut cc101 = -1;  at the top of every tick group
SelectorAtTickStart(old) == -1

\* if cc100 == 0 && cc101 == 0
RpnZeroSelected(c100, c101) == c100 = 0 /\ c101 = 0

\* 9 => u8::from(program) + 128, _ => u8::from(program)
InstrumentIndex(channel, program) ==
    IF channel = 9 THEN program + 128 ELSE program

\* 1 << denom on u8: a shift amount of 8 or more overflows
ShlOverflows(denom) == denom >= 8
Shl8(denom) == (2^(denom % 8)) % 256

\* What one event does to the translator: the commands it pushes, the new
\* scratch and range values, and whether it panics.
Translation(event) ==
    LET keep == [push |-> <<>>, c100 |-> cc100, c101 |-> cc101,
                 coarse |-> pitch_bend_range_coarse, fine |-> pitch_bend_range_fine,
                 panic |-> FALSE]
        m == event.message
        channel == event.channel
    IN  IF event.type = "Midi" THEN
            IF m.msg = "NoteOn" THEN
                [keep EXCEPT !.push = <<PlayNote(channel, m.key, m.vel)>>]
            ELSE IF m.msg = "NoteOff" THEN
                [keep EXCEPT !.push = <<ReleaseNote(channel, m.key)>>]
            ELSE IF m.msg = "ProgramChange" THEN
                [keep EXCEPT !.push =
                    <<SetChannelInstrument(channel, InstrumentIndex(channel, m.program))>>]
            ELSE IF m.msg = "PitchBend" THEN
                [keep EXCEPT !.push =
                    <<SetChannelPitch(channel,
                        PitchValue(pitch_bend_range_coarse, pitch_bend_range_fine, m.bend))>>]
            ELSE IF m.msg = "Controller" THEN
                IF m.controller = 7 THEN
                    [keep EXCEPT !.push = <<SetChannelVolume(channel, m.value)>>]
                ELSE IF m.controller = 10 THEN
                    [keep EXCEPT !.push = <<SetChannelPanning(channel, m.value * 2)>>]
                ELSE IF m.controller = 100 THEN [keep EXCEPT !.c100 = m.value]
                ELSE IF m.controller = 101 THEN [keep EXCEPT !.c101 = m.value]
                ELSE IF m.controller = 6 THEN
                    IF RpnZeroSelected(cc100, cc101)
                    THEN [keep EXCEPT !.coarse = m.value] ELSE keep
                ELSE IF m.controller = 38 THEN
                    IF RpnZeroSelected(cc100, cc101)
                    THEN [keep EXCEPT !.fine = m.value] ELSE keep
                ELSE keep                                   \* unsupported controller
            ELSE keep                                       \* unsupported message
        ELSE IF event.type = "Meta" THEN
            IF m.msg = "Tempo" THEN
                IF timing.kind = "Metrical"
                THEN [keep EXCEPT !.push =
                        <<SetTempo(TempoValue(m.tempo, timing.ticks_per_quarter_note))>>]
                ELSE [keep EXCEPT !.panic = TRUE]           \* panic!("Attempted tempo change ...")
            ELSE IF m.msg = "TimeSignature" THEN
                IF ShlOverflows(m.denom) /\ overflow_checks
                THEN [keep EXCEPT !.panic = TRUE]           \* attempt to shift left with overflow
                ELSE [keep EXCEPT !.push = <<SetTimeSignature(m.num, Shl8(m.denom))>>]
            ELSE keep                                       \* unsupported meta event
        ELSE keep                                           \* unsupported event

(***************************************************************************)
(* Command encoder, lines 152-163 and FlanSeqCommand::serialize            *)
(***************************************************************************)
U32LE(n) == <<n % 256, (n \div 256) % 256, (n \div 65536) % 256, (n \div 16777216) % 256>>

\* Variant of the header: the section table entry is not written.
\* C3 depends on all five header fields.
HeaderWithoutTable ==
    <<70, 68, 83, 83>> \o U32LE(1) \o U32LE(0) \o U32LE(4)

Header ==
    <<70, 68, 83, 83>>      \* "FDSS"
    \o U32LE(1)             \* number of sections
    \o U32LE(0)             \* section table offset
    \o U32LE(4)             \* section data offset
    \o U32LE(0)             \* section table entry 1

\* i16::to_le_bytes
I16LE(pitch) ==
    LET u == (pitch + 65536) % 65536 IN <<u % 256, u \div 256>>

\* Variant of serialize: WaitTicks is written at 0x80 + index, inside the
\* SetTempo range.  C10 depends on the opcode ranges being apart.
SerializeWaitAt80(c) ==
    IF c.cmd = "ReleaseNote" THEN <<BitOr(0, c.channel), c.key>>
    ELSE IF c.cmd = "PlayNote" THEN <<BitOr(16, c.channel), c.key, c.velocity>>
    ELSE IF c.cmd = "SetChannelVolume" THEN <<BitOr(32, c.channel), c.volume>>
    ELSE IF c.cmd = "SetChannelPanning" THEN <<BitOr(48, c.channel), c.panning>>
    ELSE IF c.cmd = "SetChannelPitch" THEN <<BitOr(64, c.channel)>> \o I16LE(c.pitch)
    ELSE IF c.cmd = "SetChannelInstrument" THEN <<BitOr(80, c.channel), c.index>>
    ELSE IF c.cmd = "SetTempo" THEN
        <<BitOr(128, (c.tempo \div 256) % 256), BitAnd(c.tempo, 255) % 256>>
    ELSE IF c.cmd = "WaitTicks" THEN <<(128 + (c.index_into_lut % 256)) % 256>>
    ELSE IF c.cmd = "SetTimeSignature" THEN <<253, c.numerator, c.denominator>>
    ELSE IF c.cmd = "SetLoopStart" THEN <<254>>
    ELSE <<255>>

Serialize(c) ==
    IF c.cmd = "ReleaseNote" THEN <<BitOr(0, c.channel), c.key>>
    ELSE IF c.cmd = "PlayNote" THEN <<BitOr(16, c.channel), c.key, c.velocity>>
    ELSE IF c.cmd = "SetChannelVolume" THEN <<BitOr(32, c.channel), c.volume>>
    ELSE IF c.cmd = "SetChannelPanning" THEN <<BitOr(48, c.channel), c.panning>>
    ELSE IF c.cmd = "SetChannelPitch" THEN <<BitOr(64, c.channel)>> \o I16LE(c.pitch)
    ELSE IF c.cmd = "SetChannelInstrument" THEN <<BitOr(80, c.channel), c.index>>
    ELSE IF c.cmd = "SetTempo" THEN
        <<BitOr(128, (c.tempo \div 256) % 256), BitAnd(c.tempo, 255) % 256>>
    ELSE IF c.cmd = "WaitTicks" THEN <<(160 + (c.index_into_lut % 256)) % 256>>
    ELSE IF c.cmd = "SetTimeSignature" THEN <<253, c.numerator, c.denominator>>
    ELSE IF c.cmd = "SetLoopStart" THEN <<254>>
    ELSE <<255>>

EncodeAll(commands) ==
    Header \o Concat([i \in 1..Len(commands) |-> Serialize(commands[i])])

(***************************************************************************)
(* The steps of main()                                                     *)
(***************************************************************************)
\* the keys the `for (time, events) in event_map` loop has not visited yet
PendingKeys == {k \in DOMAIN event_map : LessU32(time, k)}
NextKey == CHOOSE k \in PendingKeys : \A j \in PendingKeys : j = k \/ LessU32(k, j)

\* lines 54-62
Merge ==
    /\ pc = "merge"
    /\ LET merged == MergeTracks(EmptyMap, tracks, 1)
       IN  /\ event_map' = merged.map
           /\ pc' = IF merged.panic THEN "panicked" ELSE "tick"
    /\ UNCHANGED <<tracks, timing, overflow_checks, time, ev_idx, prev_time,
                   pitch_bend_range_coarse, pitch_bend_range_fine, cc100, cc101,
                   fdss_commands, output, gap, count, best>>

\* lines 69-86: the next tick group: its gap, prev_time, the selector reset
BeginTick ==
    /\ pc = "tick"
    /\ PendingKeys # {}
    /\ time' = NextKey
    /\ fdss_commands' = fdss_commands \o GapCommands(prev_time, NextKey)
    /\ prev_time' = NextKey
    /\ cc100' = SelectorAtTickStart(cc100)
    /\ cc101' = SelectorAtTickStart(cc101)
    /\ ev_idx' = 1
    /\ pc' = "events"
    /\ UNCHANGED <<tracks, timing, overflow_checks, event_map,
                   pitch_bend_range_coarse, pitch_bend_range_fine, output, gap, count, best>>

\* lines 87-148: one event of the tick group
TranslateEvent ==
    /\ pc = "events"
    /\ LET r == Translation(event_map[time][ev_idx])
       IN  /\ fdss_commands' = fdss_commands \o r.push
           /\ cc100' = r.c100
           /\ cc101' = r.c101
           /\ pitch_bend_range_coarse' = r.coarse
           /\ pitch_bend_range_fine' = r.fine
           /\ pc' = IF r.panic THEN "panicked"
                    ELSE IF ev_idx = Len(event_map[time]) THEN "tick"
                    ELSE "events"
           /\ ev_idx' = IF r.panic THEN ev_idx ELSE ev_idx + 1
    /\ UNCHANGED <<tracks, timing, overflow_checks, event_map, time, prev_time,
                   output, gap, count, best>>

\* lines 152-163, once the loop over event_map is over
Encode ==
    /\ pc = "tick"
    /\ PendingKeys = {}
    /\ output' = EncodeAll(fdss_commands)
    /\ pc' = "done"
    /\ UNCHANGED <<tracks, timing, overflow_checks, event_map, time, ev_idx, prev_time,
                   pitch_bend_range_coarse, pitch_bend_range_fine, cc100, cc101,
                   fdss_commands, gap, count, best>>

Next == Merge \/ BeginTick \/ TranslateEvent \/ Encode

(***************************************************************************)
(* Inputs                                                                  *)
(***************************************************************************)
\* all event lists of at most n events over the alphabet A
EventLists(A, n) == UNION {[1..k -> A] : k \in 0..n}

\* the ways to cut the list flat into m consecutive tracks (some may be empty)
Splits(flat, m) ==
    {[i \in 1..m |-> SubSeq(flat, cut[i - 1] + 1, cut[i])] :
        cut \in {c \in [0..m -> 0..Len(flat)] :
                    /\ c[0] = 0
                    /\ c[m] = Len(flat)
                    /\ \A i \in 1..m : c[i - 1] <= c[i]}}

\* all files of at most maxTracks tracks holding at most maxEvents events in all
TrackLists(A, maxTracks, maxEvents) ==
    {<<>>} \cup UNION {Splits(flat, m) : flat \in EventLists(A, maxEvents), m \in 1..maxTracks}

InitWith(trackSet, timingSet, profileSet) ==
    /\ tracks \in trackSet
    /\ timing \in timingSet
    /\ overflow_checks \in profileSet
    /\ pc = "merge"
    /\ event_map = EmptyMap
    /\ time = <<-1, 0>>
    /\ ev_idx = 0
    /\ prev_time = U32(0)
    /\ pitch_bend_range_coarse = 2
    /\ pitch_bend_range_fine = 0
    /\ cc100 = -1
    /\ cc101 = -1
    /\ fdss_commands = <<>>
    /\ output = <<>>
    /\ gap = 0
    /\ count = <<>>
    /\ best = <<>>

\* The general pipeline: notes, a tempo change and an unsupported event, on up
\* to MaxTracks tracks, at tick distances 0 and 10.
MainAlphabet ==
    { Ev(0,  Midi(0, NoteOn(60, 100))), Ev(10, Midi(0, NoteOn(60, 100))),
      Ev(0,  Midi(0, NoteOff(60, 0))),  Ev(10, Midi(0, NoteOff(60, 0))),
      Ev(0,  Meta(Tempo(500000))),      Ev(10, Meta(EndOfTrack)) }

Init == InitWith(TrackLists(MainAlphabet, MaxTracks, MaxEvents),
                 {Metrical(48), Timecode}, {FALSE})

Spec == Init /\ [][Next]_vars

\* Gaps on both sides of the u16 range
GapAlphabet ==
    {Ev(d, k) : d \in {0, 1, 10, 1029, 65535, 65536, 65546},
                k \in {Midi(0, NoteOn(60, 100)), Meta(EndOfTrack)}}

InitGap == InitWith(TrackLists(GapAlphabet, MaxTracks, MaxGapEvents), {Metrical(48)}, {FALSE})

SpecGap == InitGap /\ [][Next]_vars

\* Tracks long enough for the tick to pass u32::MAX: up to MaxWrapEvents events
\* at the largest delta a file can hold (28 bits), next to a short track
WrapTracks ==
    {<<[i \in 1..n |-> Ev(268435455, Midi(0, NoteOn(60, 100)))], second>> :
        n \in 0..MaxWrapEvents,
        second \in {<<>>, <<Ev(268435455, Midi(1, NoteOff(60, 0)))>>,
                    <<Ev(0, Meta(EndOfTrack))>>}}

InitWrap == InitWith(WrapTracks, {Metrical(48)}, BOOLEAN)

SpecWrap == InitWrap /\ [][Next]_vars

\* The RPN protocol and pitch bend, on one track
RpnAlphabet ==
    { Ev(0, Midi(0, Controller(100, 0))), Ev(0, Midi(0, Controller(101, 0))),
      Ev(0, Midi(1, Controller(100, 1))),
      Ev(0, Midi(0, Controller(6, 12))),  Ev(1, Midi(0, Controller(6, 12))),
      Ev(0, Midi(0, Controller(38, 50))),
      Ev(0, Midi(0, PitchBend(16383))),   Ev(1, Midi(3, PitchBend(0))) }

InitRpn == InitWith(TrackLists(RpnAlphabet, 1, MaxRpnEvents), {Metrical(48)}, {FALSE})

SpecRpn == InitRpn /\ [][Next]_vars

\* Fatal and skipped events, under both time divisions and both build profiles
AbortAlphabet ==
    { Ev(0, Meta(Tempo(500000))), Ev(0, Meta(TimeSignature(6, 3))),
      Ev(10, Meta(TimeSignature(4, 8))), Ev(10, Midi(2, ChannelAftertouch(5))), Ev(0, SysEx) }

InitAbort == InitWith(TrackLists(AbortAlphabet, MaxTracks, MaxEvents),
                      {Metrical(48), Timecode}, BOOLEAN)

SpecAbort == InitAbort /\ [][Next]_vars

\* Tempo changes: the whole range of T, values whose exact result is k + 1/2,
\* and divisions from 1 to the largest midly accepts
TempoSamples == {0, 1, 10, 11, 83252, 390625, 500000, 1515625, 3078125, 16777215}
DivisionSamples == {1, 2, 48, 96, 480, 1536, 3072, 32767}

InitTempo ==
    InitWith({<<<<Ev(0, Meta(Tempo(T)))>>>> : T \in TempoSamples},
             {Metrical(P) : P \in DivisionSamples}, {FALSE})

SpecTempo == InitTempo /\ [][Next]_vars

\* Every command the translator emits: all sixteen channels for every channel
\* command, the ends of every field's range, every LUT index
ChannelMessages(ch) ==
    {NoteOn((ch * 8) + 7, 127 - ch), NoteOff(ch * 8, 64), ProgramChange(127 - ch),
     PitchBend(ch * 1092), Controller(7, ch * 8), Controller(10, 127 - ch)}

\* tempo changes that give, at 48 ticks per quarter note, SetTempo values with
\* every high nibble and low bytes at both ends and inside other opcode ranges
CodecTempos ==
    {((k * 15625) + 15) \div 16 :
        k \in {(hi * 256) + lo : hi \in 0..15, lo \in {0, 1, 64, 128, 160, 253, 255}}}
    \cup {16777215}

CodecAlphabet ==
    UNION {{Ev(0, Midi(ch, m)) : m \in ChannelMessages(ch)} : ch \in 0..15}
    \cup {Ev(0, Meta(Tempo(T))) : T \in CodecTempos}
    \cup {Ev(0, Meta(TimeSignature(4, 2))), Ev(0, Meta(TimeSignature(255, 7)))}
    \cup {Ev(WAIT_TICK_LUT[i], Meta(EndOfTrack)) : i \in 1..Len(WAIT_TICK_LUT)}

\* what may follow the first event: one record of each length, with field
\* bytes that look like opcodes
CodecTail ==
    { Ev(0, Midi(15, NoteOn(31, 80))), Ev(0, Midi(4, PitchBend(100))),
      Ev(0, Meta(Tempo(3999000))), Ev(0, Meta(TimeSignature(160, 7))),
      Ev(1029, Midi(0, NoteOff(0, 0))) }

CodecTracks ==
    {<<>>} \cup {<<<<first>> \o rest>> : first \in CodecAlphabet,
                                        rest \in EventLists(CodecTail, MaxCodecTail)}

InitCodec == InitWith(CodecTracks, {Metrical(48)}, {FALSE})

SpecCodec == InitCodec /\ [][Next]_vars

(***************************************************************************)
(* The quantization loop on every gap a u16 holds, one gap per step, next  *)
(* to the fewest table entries that sum to the gap.  The loop's only state *)
(* is delta_time_left, so after its first pass on gap g, which leaves      *)
(* g - c, it runs as it ran for the gap g - c: count keeps the number of   *)
(* commands pushed for each of the last 1024 gaps (slot g mod 1024), best  *)
(* keeps the fewest entries that sum to each of them.                      *)
(***************************************************************************)
LutEntries == {WAIT_TICK_LUT[i] : i \in 1..Len(WAIT_TICK_LUT)}
Window == WAIT_TICK_LUT[Len(WAIT_TICK_LUT)]
Slot(g) == (g % Window) + 1

Min(S) == CHOOSE x \in S : \A y \in S : x <= y

\* the fewest entries summing to g >= 1, given the answers for g - 1 .. g - Window
Fewest(g, table) == 1 + Min({table[Slot(g - e)] : e \in {e \in LutEntries : e <= g}})

\* the number of commands the loop pushes for g >= 1: its first pass, then as for what is left
Pushed(g, table) ==
    LET st == Iteration([delta_time_left |-> g, pushed |-> <<>>])
    IN  Len(st.pushed) + table[Slot(st.delta_time_left)]

InitCoin ==
    /\ gap = 0
    /\ count = [k \in 1..Window |-> 0]
    /\ best = [k \in 1..Window |-> 0]
    /\ pc = "coin"
    /\ tracks = <<>>
    /\ timing = Metrical(48)
    /\ overflow_checks = FALSE
    /\ event_map = EmptyMap
    /\ time = <<-1, 0>>
    /\ ev_idx = 0
    /\ prev_time = U32(0)
    /\ pitch_bend_range_coarse = 2
    /\ pitch_bend_range_fine = 0
    /\ cc100 = -1
    /\ cc101 = -1
    /\ fdss_commands = <<>>
    /\ output = <<>>

NextGap ==
    /\ pc = "coin"
    /\ gap < 65535
    /\ gap' = gap + 1
    /\ count' = [count EXCEPT ![Slot(gap + 1)] = Pushed(gap + 1, count)]
    /\ best' = [best EXCEPT ![Slot(gap + 1)] = Fewest(gap + 1, best)]
    /\ UNCHANGED <<tracks, timing, overflow_checks, pc, event_map, time, ev_idx, prev_time,
                   pitch_bend_range_coarse, pitch_bend_range_fine, cc100, cc101,
                   fdss_commands, output>>

SpecCoin == InitCoin /\ [][NextGap]_vars

(***************************************************************************)
(* The claims                                                              *)
(***************************************************************************)
\* the summed LUT durations of a list of WaitTicks commands
RECURSIVE LutSum(_)
LutSum(cmds) ==
    IF Len(cmds) = 0 THEN 0
    ELSE IF Len(cmds) = 1 THEN WAIT_TICK_LUT[cmds[1].index_into_lut + 1]
    ELSE LET h == Len(cmds) \div 2
         IN  LutSum(SubSeq(cmds, 1, h)) + LutSum(SubSeq(cmds, h + 1, Len(cmds)))

AllWaitTicks(cmds) == \A i \in 1..Len(cmds) : cmds[i].cmd = "WaitTicks"

\* the commands a step pushes
NewCommands == SubSeq(fdss_commands', Len(fdss_commands) + 1, Len(fdss_commands'))

\* the event a TranslateEvent step is about to translate
CurrentEvent == event_map[time][ev_idx]

IsController(kind, n) ==
    /\ kind.type = "Midi"
    /\ kind.message.msg = "Controller"
    /\ kind.message.controller = n

IsPitchBend(kind) == kind.type = "Midi" /\ kind.message.msg = "PitchBend"

IsTempo(kind) == kind.type = "Meta" /\ kind.message.msg = "Tempo"

\* ---------------------------------------------------------------- C1 ----
\* C1, as claimed: on entering the tick group of key t, with p the previous
\* key (0 for the first), the step pushes only WaitTicks commands and their
\* LUT durations sum to t - p (so none is pushed when the gap is 0).  The
\* code violates it: `delta_time as u16` keeps only the gap modulo 65536.
C1_WaitsSumToGap ==
    [][(pc = "tick" /\ pc' = "events") =>
          /\ AllWaitTicks(NewCommands)
          /\ U32(LutSum(NewCommands)) =
                SubU32(time', IF time = <<-1, 0>> THEN U32(0) ELSE time)]_vars

\* the failing run: one event at tick 65546 is preceded by waits that sum to 10
C1_TruncatedGap ==
    /\ pc = "events"
    /\ time = U32(65546)
    /\ fdss_commands = <<WaitTicks(5), WaitTicks(1)>>

\* ---------------------------------------------------------------- C2 ----
C2Input ==
    << <<Ev(0, Midi(0, NoteOn(60, 100))), Ev(10, Midi(0, NoteOff(60, 0)))>>,
       <<Ev(0, Meta(Tempo(500000)))>> >>

\* SetTempo at position tempoAt, PlayNote{0,60,100} at position noteAt, then
\* WaitTicks summing to 10, then ReleaseNote{0,60}
C2Emits(tempoAt, noteAt) ==
    /\ Len(fdss_commands) >= 4
    /\ fdss_commands[tempoAt].cmd = "SetTempo"
    /\ fdss_commands[noteAt] = PlayNote(0, 60, 100)
    /\ AllWaitTicks(SubSeq(fdss_commands, 3, Len(fdss_commands) - 1))
    /\ LutSum(SubSeq(fdss_commands, 3, Len(fdss_commands) - 1)) = 10
    /\ fdss_commands[Len(fdss_commands)] = ReleaseNote(0, 60)

\* C2, corrected: for the input with track A = NoteOn at 0, NoteOff at 10 and
\* track B = Tempo 500000 at 0, in a file with a ticks-per-quarter-note
\* division, the emitted sequence is PlayNote{0,60,100}, SetTempo, WaitTicks
\* summing to 10, ReleaseNote{0,60}: track A's event comes first at tick 0.
C2_NoteThenTempo ==
    (tracks = C2Input /\ timing.kind = "Metrical" /\ pc = "done") => C2Emits(2, 1)

\* C2, as claimed: SetTempo comes before PlayNote.
C2_TempoThenNote ==
    (tracks = C2Input /\ timing.kind = "Metrical" /\ pc = "done") => C2Emits(1, 2)

C2_Converted == tracks = C2Input /\ timing.kind = "Metrical" /\ pc = "done"

\* ---------------------------------------------------------------- C3 ----
SerializedSize(cmds) == Len(Concat([i \in 1..Len(cmds) |-> Serialize(cmds[i])]))

\* magic, section count 1, table offset 0, data offset 4, first section offset 0
FixedHeaderBytes == <<70, 68, 83, 83,  1, 0, 0, 0,  0, 0, 0, 0,  4, 0, 0, 0,  0, 0, 0, 0>>

\* the output is the first headerSize fixed bytes, then every command's
\* serialization in command order
C3Layout(headerSize) ==
    pc = "done" =>
        /\ Len(output) = headerSize + SerializedSize(fdss_commands)
        /\ SubSeq(output, 1, headerSize) = SubSeq(FixedHeaderBytes, 1, headerSize)
        /\ fdss_commands # <<>> => output[headerSize + 1] = Serialize(fdss_commands[1])[1]
        /\ \A i \in 1..Len(fdss_commands) :
              LET at == headerSize + SerializedSize(SubSeq(fdss_commands, 1, i - 1))
              IN  SubSeq(output, at + 1, at + Len(Serialize(fdss_commands[i])))
                      = Serialize(fdss_commands[i])

\* C3, corrected: whenever the conversion produces an output buffer, it is the
\* fixed 20-byte header (magic and four u32 fields) followed by the serialized
\* commands in command order: the first opcode is at byte offset 20 and the
\* length is 20 plus the sum of the serialized sizes.
C3_Header20 == C3Layout(20)

\* C3, as claimed: the header is 16 bytes, the first opcode is at offset 16.
C3_Header16 == C3Layout(16)

C3_SeveralCommands ==
    /\ pc = "done"
    /\ Len(fdss_commands) >= 3
    /\ Len(output) > 20 + Len(fdss_commands)

\* ---------------------------------------------------------------- C4 ----
\* the events of the current tick group that were translated before this one
EarlierInTick == SubSeq(event_map[time], 1, ev_idx - 1)

\* the value of the latest controller-n event of the list, -1 when there is none
LatestValue(list, n) ==
    LET at == {i \in 1..Len(list) : IsController(list[i], n)}
    IN  IF at = {} THEN -1
        ELSE list[CHOOSE i \in at : \A j \in at : j <= i].message.value

SelectedInTick == LatestValue(EarlierInTick, 100) = 0 /\ LatestValue(EarlierInTick, 101) = 0

\* C4: the range starts at coarse 2, fine 0; translating a controller-6
\* (controller-38) event sets coarse (fine) to its value exactly when, earlier
\* in the same tick's list, controllers 100 and 101 were both seen with latest
\* value 0; every other step leaves both values unchanged.
C4_RangeOnlyThroughRpnZero ==
    [][/\ pc = "merge" => (pitch_bend_range_coarse = 2 /\ pitch_bend_range_fine = 0)
       /\ pc = "events" =>
            /\ pitch_bend_range_coarse' =
                  IF IsController(CurrentEvent, 6) /\ SelectedInTick
                  THEN CurrentEvent.message.value ELSE pitch_bend_range_coarse
            /\ pitch_bend_range_fine' =
                  IF IsController(CurrentEvent, 38) /\ SelectedInTick
                  THEN CurrentEvent.message.value ELSE pitch_bend_range_fine
       /\ pc # "events" => UNCHANGED <<pitch_bend_range_coarse, pitch_bend_range_fine>>]_vars

\* both halves happened: the selected controller 38 of tick 0 set fine, and
\* the controller 6 of tick 1 found the selectors unset and left coarse alone
C4_RangeSetAndKept ==
    /\ pc = "done"
    /\ pitch_bend_range_coarse = 2
    /\ pitch_bend_range_fine = 50
    /\ tracks = <<<<Ev(0, Midi(0, Controller(100, 0))), Ev(0, Midi(0, Controller(101, 0))),
                    Ev(0, Midi(0, Controller(38, 50))), Ev(1, Midi(0, Controller(6, 12)))>>>>

\* ---------------------------------------------------------------- C5 ----
HasTempo ==
    \E ti \in 1..Len(tracks) : \E i \in 1..Len(tracks[ti]) : IsTempo(tracks[ti][i].kind)

\* C5, as claimed: a timecode file with a Tempo event never produces an
\* output buffer, and any other file never aborts.  The code violates the
\* second half: TimeSignature with a denominator exponent of 8 or more makes
\* `1 << denom` overflow, which panics in a build with overflow checks.
C5_AbortsOnlyOnTimecodeTempo ==
    /\ (timing.kind = "Timecode" /\ HasTempo) => (pc # "done" /\ output = <<>>)
    /\ ~(timing.kind = "Timecode" /\ HasTempo) => pc # "panicked"

\* the failing run: a ticks-per-quarter-note file aborts
C5_MetricalAbort ==
    /\ pc = "panicked"
    /\ timing.kind = "Metrical"
    /\ overflow_checks

\* ---------------------------------------------------------------- C6 ----
\* C6: for every gap g in 1..65535 the number of WaitTicks commands the loop
\* pushes for g is the fewest entries of the table, repetition allowed, that
\* sum to g.
C6_GreedyIsFewest ==
    (pc = "coin" /\ gap >= 1) => count[Slot(gap)] = best[Slot(gap)]

\* a gap past the largest entry: 1024 + 896 + 112 + 12 + 3
C6_FiveWaits ==
    /\ pc = "coin"
    /\ gap = 2047
    /\ count[Slot(gap)] = 5
    /\ best[Slot(gap)] = 5

\* ---------------------------------------------------------------- C7 ----
\* round(x) for x = cents * 10 * (bend - 8192) / 8192, halves away from zero
RoundedPitch(coarse, fine, bend) ==
    LET n == ((coarse * 100) + fine) * 10 * Abs(bend - 8192)
        q == (n + 4096) \div 8192
    IN  IF bend >= 8192 THEN q ELSE -q

\* C7, as claimed: a pitch-bend event pushes SetChannelPitch on its channel
\* with pitch = round(rangeCents * 10 * normalizedBend), which is 2000 for the
\* largest bend at the default range.  The code violates it: `as i16`
\* truncates, and the largest bend is 8191/8192, so it pushes 1999.
C7_PitchIsRounded ==
    [][(pc = "events" /\ IsPitchBend(CurrentEvent)) =>
          /\ NewCommands =
                <<SetChannelPitch(CurrentEvent.channel,
                                  RoundedPitch(pitch_bend_range_coarse, pitch_bend_range_fine,
                                               CurrentEvent.message.bend))>>
          /\ (/\ pitch_bend_range_coarse = 2
              /\ pitch_bend_range_fine = 0
              /\ CurrentEvent.message.bend = 16383) => NewCommands[1].pitch = 2000]_vars

\* the failing run: the largest bend at the default range
C7_LargestBendIs1999 ==
    /\ pc = "done"
    /\ tracks = <<<<Ev(0, Midi(0, PitchBend(16383)))>>>>
    /\ fdss_commands = <<SetChannelPitch(0, 1999)>>

\* ---------------------------------------------------------------- C8 ----
\* min(4095, round(T * 49152 / (P * 1000000))), halves up, in exact integer
\* arithmetic: 49152 / 1000000 = 768 / 15625, so it is
\* floor((1536 T / 15625 + P) / (2 P))
ExactTempo(T, P) ==
    LET scaled == (1536 * (T \div 15625)) + ((1536 * (T % 15625)) \div 15625)
        r == (P + scaled) \div (2 * P)
    IN  IF r > 4095 THEN 4095 ELSE r

\* C8, as claimed: a Tempo event of T microseconds in a file of P ticks per
\* quarter note pushes SetTempo with min(4095, round(T * 49152 / (P * 10^6))),
\* within 0..4095, and its first serialized byte is within 0x80..0x8F.  The
\* code violates the first part: it divides twice and multiplies in f64, and
\* the rounded intermediate results can fall under an exact half.
C8_TempoIsExactlyRounded ==
    pc = "done" =>
        /\ fdss_commands =
              <<SetTempo(ExactTempo(tracks[1][1].kind.message.tempo,
                                    timing.ticks_per_quarter_note))>>
        /\ fdss_commands[1].tempo \in 0..4095
        /\ output[21] \in 128..143

\* the failing run: T = 390625, P = 1536 is exactly 12.5 and comes out as 12
C8_HalfRoundedDown ==
    /\ pc = "done"
    /\ tracks = <<<<Ev(0, Meta(Tempo(390625)))>>>>
    /\ timing = Metrical(1536)
    /\ fdss_commands = <<SetTempo(12)>>

\* ---------------------------------------------------------------- C9 ----
\* the events of the input, as <<track index, position in the track>>
Positions == UNION {{<<ti, i>> : i \in 1..Len(tracks[ti])} : ti \in 1..Len(tracks)}

\* the sum of the deltas of track ti up to and including position i, as
\* <<high, low>> with the high half unbounded: the true sum, not the u32
RECURSIVE DeltaSum(_, _)
DeltaSum(ti, i) ==
    IF i = 0 THEN <<0, 0>>
    ELSE LET before == DeltaSum(ti, i - 1)
             low    == before[2] + (tracks[ti][i].delta % 65536)
         IN  <<before[1] + (tracks[ti][i].delta \div 65536) + (low \div 65536), low % 65536>>

AbsTick == [p \in Positions |-> DeltaSum(p[1], p[2])]

\* the order (absolute tick, track index, position)
Before(ticks, p, q) ==
    \/ LessU32(ticks[p], ticks[q])
    \/ /\ ticks[p] = ticks[q]
       /\ (p[1] < q[1] \/ (p[1] = q[1] /\ p[2] < q[2]))

InClaimedOrder(ticks) ==
    [r \in 1..Cardinality(Positions) |->
        CHOOSE p \in Positions : Cardinality({q \in Positions : Before(ticks, q, p)}) = r - 1]

KindAt(p) == tracks[p[1]][p[2]].kind

NotWaitTicks(c) == c.cmd # "WaitTicks"

\* C9, as claimed: every event is recorded at the sum of its track's deltas up
\* to it, each tick's list is in (track index, position) order, and the
\* commands emitted for the events follow the order (absolute tick, track
\* index, position).  The code violates it on a track whose deltas sum past
\* u32::MAX: without overflow checks `time += delta` wraps, and the events
\* past the wrap are recorded, and emitted, ahead of the earlier ones.
C9_MergedInTrackOrder ==
    LET ticks == AbsTick
        order == InClaimedOrder(ticks)
    IN  /\ pc \in {"tick", "events", "done"} =>
              /\ DOMAIN event_map = {ticks[p] : p \in Positions}
              /\ \A t \in DOMAIN event_map :
                    LET here == SelectSeq(order, LAMBDA p : ticks[p] = t)
                    IN  event_map[t] = [k \in 1..Len(here) |-> KindAt(here[k])]
        /\ pc = "done" =>
              SelectSeq(fdss_commands, NotWaitTicks) =
                  Concat([r \in 1..Len(order) |-> Translation(KindAt(order[r])).push])

\* the failing run: the seventeenth event of a track of largest deltas is
\* recorded at tick 17 * (2^28 - 1) - 2^32 = 2^28 - 17, under the first event
C9_WrappedTick ==
    /\ pc = "done"
    /\ ~overflow_checks
    /\ Len(tracks[1]) = 17
    /\ U32(268435439) \in DOMAIN event_map

\* --------------------------------------------------------------- C10 ----
\* the first bytes of every variant
OpcodeRange(variant) ==
    IF variant = "ReleaseNote" THEN 0..15
    ELSE IF variant = "PlayNote" THEN 16..31
    ELSE IF variant = "SetChannelVolume" THEN 32..47
    ELSE IF variant = "SetChannelPanning" THEN 48..63
    ELSE IF variant = "SetChannelPitch" THEN 64..79
    ELSE IF variant = "SetChannelInstrument" THEN 80..95
    ELSE IF variant = "SetTempo" THEN 128..143
    ELSE IF variant = "WaitTicks" THEN 160..191
    ELSE IF variant = "SetTimeSignature" THEN {253}
    ELSE IF variant = "SetLoopStart" THEN {254}
    ELSE {255}

Variants ==
    {"ReleaseNote", "PlayNote", "SetChannelVolume", "SetChannelPanning", "SetChannelPitch",
     "SetChannelInstrument", "SetTempo", "WaitTicks", "SetTimeSignature", "SetLoopStart",
     "JumpToLoopStart"}

RecordLength(variant) ==
    IF variant \in {"PlayNote", "SetChannelPitch", "SetTimeSignature"} THEN 3
    ELSE IF variant \in {"WaitTicks", "SetLoopStart", "JumpToLoopStart"} THEN 1
    ELSE 2

\* the record that starts at bytes[at], whose first byte belongs to variant
DecodeRecord(bytes, at, variant) ==
    LET channel == bytes[at] % 16
    IN  IF variant = "ReleaseNote" THEN ReleaseNote(channel, bytes[at + 1])
        ELSE IF variant = "PlayNote" THEN PlayNote(channel, bytes[at + 1], bytes[at + 2])
        ELSE IF variant = "SetChannelVolume" THEN SetChannelVolume(channel, bytes[at + 1])
        ELSE IF variant = "SetChannelPanning" THEN SetChannelPanning(channel, bytes[at + 1])
        ELSE IF variant = "SetChannelPitch" THEN
            LET u == bytes[at + 1] + (256 * bytes[at + 2])
            IN  SetChannelPitch(channel, IF u >= 32768 THEN u - 65536 ELSE u)
        ELSE IF variant = "SetChannelInstrument" THEN
            SetChannelInstrument(channel, bytes[at + 1])
        ELSE IF variant = "SetTempo" THEN SetTempo(((bytes[at] - 128) * 256) + bytes[at + 1])
        ELSE IF variant = "WaitTicks" THEN WaitTicks(bytes[at] - 160)
        ELSE IF variant = "SetTimeSignature" THEN SetTimeSignature(bytes[at + 1], bytes[at + 2])
        ELSE IF variant = "SetLoopStart" THEN SetLoopStart
        ELSE JumpToLoopStart

\* record by record from bytes[at]; a first byte outside every range, or a
\* record cut short, ends the decoding with an "undecodable" mark
RECURSIVE Decode(_, _)
Decode(bytes, at) ==
    IF at > Len(bytes) THEN <<>>
    ELSE LET fits == {v \in Variants : bytes[at] \in OpcodeRange(v)}
         IN  IF Cardinality(fits) # 1 THEN <<[cmd |-> "undecodable"]>>
             ELSE LET v == CHOOSE v \in fits : TRUE
                  IN  IF at + RecordLength(v) - 1 > Len(bytes)
                      THEN <<[cmd |-> "undecodable"]>>
                      ELSE <<DecodeRecord(bytes, at, v)>>
                               \o Decode(bytes, at + RecordLength(v))

\* C10: the opcode ranges of different variants are apart, the first byte of
\* every emitted command lies in the range of its variant (which gives the
\* record length), and decoding the bytes after the header record by record
\* gives back the emitted commands, every field included.
C10_DecodesToCommands ==
    pc = "done" =>
        /\ \A v \in Variants, w \in Variants :
              v # w => OpcodeRange(v) \cap OpcodeRange(w) = {}
        /\ \A i \in 1..Len(fdss_commands) :
              /\ Serialize(fdss_commands[i])[1] \in OpcodeRange(fdss_commands[i].cmd)
              /\ Len(Serialize(fdss_commands[i])) = RecordLength(fdss_commands[i].cmd)
        /\ Decode(output, Len(Header) + 1) = fdss_commands

\* a clamped tempo, a run of three waits and a channel command in one stream
C10_MixedStream ==
    /\ pc = "done"
    /\ fdss_commands = <<SetTempo(4095), WaitTicks(31), WaitTicks(3), WaitTicks(0),
                         ReleaseNote(0, 0)>>

====
